---- MODULE Spec2Model ----
(***************************************************************************)
(* Model of wifi_connect.cpp: an ESP32 sketch that accepts                 *)
(* POST /update-image with a body of WIDTH*HEIGHT*2 bytes (RGB565,         *)
(* little-endian) and draws it on the TFT in chunks of CHUNK_ROWS rows.    *)
(*                                                                         *)
(* loop() is modelled as a sequence of steps (pc); the client is the       *)
(* environment: at every read it chooses which bytes arrive before the     *)
(* deadline of that read.  Text is a sequence of one-character strings,    *)
(* body bytes are numbers 0..255.                                          *)
(***************************************************************************)
EXTENDS Integers, Sequences, FiniteSets, TLC

\* ---------------------------------------------------------------- constants
WIDTH == 240
HEIGHT == 135
CHUNK_ROWS == 4
TOTAL_BYTES == WIDTH * HEIGHT * 2
TFT_BLACK == 0

\* ------------------------------------------------------------------- bounds
\* connections accepted in one behaviour
MaxConns == 2

Min(a, b) == IF a < b THEN a ELSE b

\* ------------------------------------------------- Arduino String operations
IsSpace(c) == c \in {" ", "\t", "\n", "\r", "\f"}

RECURSIVE SkipLeft(_, _)
SkipLeft(s, i) == IF i <= Len(s) /\ IsSpace(s[i]) THEN SkipLeft(s, i + 1) ELSE i

RECURSIVE SkipRight(_, _)
SkipRight(s, j) == IF j >= 1 /\ IsSpace(s[j]) THEN SkipRight(s, j - 1) ELSE j

\* String::trim(): leading and trailing white space removed
trim(s) ==
  LET b == SkipLeft(s, 1)
      e == SkipRight(s, Len(s))
  IN  IF b > e THEN <<>> ELSE SubSeq(s, b, e)

\* String::startsWith(prefix)
startsWith(s, p) == Len(s) >= Len(p) /\ SubSeq(s, 1, Len(p)) = p

\* String::indexOf(substring): 0-based index of the first occurrence, or -1
indexOf(s, p) ==
  LET hits == {i \in 0..(Len(s) - Len(p)) : SubSeq(s, i + 1, i + Len(p)) = p}
  IN  IF hits = {} THEN -1 ELSE CHOOSE i \in hits : \A j \in hits : i <= j

LowerOf ==
  [A |-> "a", B |-> "b", C |-> "c", D |-> "d", E |-> "e", F |-> "f", G |-> "g",
   H |-> "h", I |-> "i", J |-> "j", K |-> "k", L |-> "l", M |-> "m", N |-> "n",
   O |-> "o", P |-> "p", Q |-> "q", R |-> "r", S |-> "s", T |-> "t", U |-> "u",
   V |-> "v", W |-> "w", X |-> "x", Y |-> "y", Z |-> "z"]

\* String::toLowerCase()
toLowerCase(s) ==
  [i \in 1..Len(s) |-> IF s[i] \in DOMAIN LowerOf THEN LowerOf[s[i]] ELSE s[i]]

\* String::substring(from): 0-based, to the end
substring(s, from) == SubSeq(s, from + 1, Len(s))

DigitValue ==
  ("0" :> 0) @@ ("1" :> 1) @@ ("2" :> 2) @@ ("3" :> 3) @@ ("4" :> 4) @@
  ("5" :> 5) @@ ("6" :> 6) @@ ("7" :> 7) @@ ("8" :> 8) @@ ("9" :> 9)

RECURSIVE ParseDigits(_, _, _)
ParseDigits(s, i, acc) ==
  IF i <= Len(s) /\ s[i] \in DOMAIN DigitValue
  THEN ParseDigits(s, i + 1, acc * 10 + DigitValue[s[i]])
  ELSE acc

\* String::toInt() (atol): white space, an optional sign, then the digits up
\* to the first other character; 0 when there is no digit
toInt(s) ==
  LET b      == SkipLeft(s, 1)
      signed == b <= Len(s) /\ s[b] \in {"+", "-"}
      mag    == ParseDigits(s, IF signed THEN b + 1 ELSE b, 0)
  IN  IF signed /\ s[b] = "-" THEN 0 - mag ELSE mag

\* ------------------------------------------------------------ readHeaderLine
\* the trailing carriage return is removed (lines 31-33 and 42)
TrimCR(line) ==
  IF Len(line) > 0 /\ line[Len(line)] = "\r"
  THEN SubSeq(line, 1, Len(line) - 1)
  ELSE line

\* avail: the characters the client delivers before the line deadline, in
\* order.  The reader consumes them one by one up to the first line feed; when
\* they run out with no line feed the deadline passes and what was
\* accumulated is returned.
RECURSIVE ReadLineFrom(_, _, _)
ReadLineFrom(avail, i, line) ==
  IF i > Len(avail)
  THEN [line |-> TrimCR(line), timedOut |-> TRUE, consumed |-> Len(avail)]
  ELSE IF avail[i] = "\n"
  THEN [line |-> TrimCR(line), timedOut |-> FALSE, consumed |-> i]
  ELSE ReadLineFrom(avail, i + 1, Append(line, avail[i]))

readHeaderLine(avail) == ReadLineFrom(avail, 1, <<>>)

\* ---------------------------------------------------------- what clients send
CRLF == <<"\r", "\n">>
LF == <<"\n">>
POST_ == <<"P", "O", "S", "T", " ">>
UPDATE_IMAGE == <<"/", "u", "p", "d", "a", "t", "e", "-", "i", "m", "a", "g", "e">>
HTTP_1_1 == <<"H", "T", "T", "P", "/", "1", ".", "1">>
CONTENT_LENGTH_ == <<"c", "o", "n", "t", "e", "n", "t", "-", "l", "e", "n", "g", "t", "h", ":">>
ContentLengthName == <<"C", "o", "n", "t", "e", "n", "t", "-", "L", "e", "n", "g", "t", "h", ":">>
ContentLengthUpper == <<"C", "O", "N", "T", "E", "N", "T", "-", "L", "E", "N", "G", "T", "H", ":">>
Digits64800 == <<"6", "4", "8", "0", "0">>

\* what arrives, before the line deadline, when the request line is read
RL_Valid == POST_ \o UPDATE_IMAGE \o <<" ">> \o HTTP_1_1 \o CRLF
RL_ValidPadded == <<" ">> \o POST_ \o UPDATE_IMAGE \o <<" ">> \o HTTP_1_1 \o <<" ">> \o LF
RL_Get == <<"G", "E", "T", " ">> \o UPDATE_IMAGE \o CRLF
RL_OtherPath == POST_ \o <<"/", "o", "t", "h", "e", "r">> \o CRLF
RL_LowerMethod == <<"p", "o", "s", "t", " ">> \o UPDATE_IMAGE \o CRLF
RL_Blank == CRLF
RL_Spaces == <<" ", " ">> \o CRLF
RL_Silent == <<>>
RL_Truncated == POST_ \o <<"/", "u", "p", "d">>

RequestWires ==
  {RL_Valid, RL_ValidPadded, RL_Get, RL_OtherPath,
   RL_LowerMethod, RL_Blank, RL_Spaces, RL_Silent, RL_Truncated}

\* what arrives, before the line deadline, when a header line is read
H_Exact == ContentLengthName \o <<" ">> \o Digits64800 \o CRLF
H_ExactLower == CONTENT_LENGTH_ \o Digits64800 \o LF
H_ExactUpper == ContentLengthUpper \o <<" ">> \o Digits64800 \o <<" ">> \o CRLF
H_Short == ContentLengthName \o <<" ", "1", "0", "0">> \o CRLF
H_Long == ContentLengthName \o <<" ", "6", "4", "8", "0", "1">> \o CRLF
H_NonNumeric == ContentLengthName \o <<" ", "a", "b", "c">> \o CRLF
H_Truncated == ContentLengthName \o <<" ", "6", "4", "8">>
H_Host == <<"H", "o", "s", "t", ":", " ", "e", "s", "p">> \o CRLF
H_OtherName == <<"X", "-">> \o ContentLengthName \o <<" ">> \o Digits64800 \o CRLF
H_Blank == CRLF
H_BlankBareLF == LF
H_Silent == <<>>

HeaderWires ==
  {H_Exact, H_ExactLower, H_ExactUpper, H_Short, H_Long, H_NonNumeric,
   H_Truncated, H_Host, H_OtherName, H_Blank, H_BlankBareLF, H_Silent}

\* the bytes of the line that ends the header section, as body bytes
BlankLineBytes == <<13, 10>>

\* the image bodies clients upload: byte i (from 0) of body b
Bodies == {0}
BodyByte(b, i) == (101 * b + 7 * i + (i \div 256)) % 256

\* -------------------------------------------------------- sendSimpleResponse
\* the status line (lines 62-65), without its line end
StatusLine(code) ==
  IF code = 200 THEN HTTP_1_1 \o <<" ", "2", "0", "0", " ", "O", "K">>
  ELSE IF code = 400
  THEN HTTP_1_1 \o <<" ", "4", "0", "0", " ", "B", "a", "d", " ",
                      "R", "e", "q", "u", "e", "s", "t">>
  ELSE IF code = 404
  THEN HTTP_1_1 \o <<" ", "4", "0", "4", " ", "N", "o", "t", " ",
                      "F", "o", "u", "n", "d">>
  ELSE HTTP_1_1 \o <<" ", "5", "0", "0", " ", "I", "n", "t", "e", "r", "n", "a", "l", " ",
                     "S", "e", "r", "v", "e", "r", " ", "E", "r", "r", "o", "r">>

\* the response as printed to the client, appended to what it was sent before
sendSimpleResponse(out, code, body) ==
  Append(out, [status        |-> StatusLine(code),
               contentType   |-> "text/plain",
               contentLength |-> Len(body),
               body          |-> body])

\* --------------------------------------------------------------- chunk engine
rowsPerChunk == CHUNK_ROWS
\* a wire buffer for the whole image instead of one chunk
bytesPerChunk_WholeImage == TOTAL_BYTES
bytesPerChunk == WIDTH * rowsPerChunk * 2
wordsPerChunk == WIDTH * rowsPerChunk

\* content of freshly allocated memory (never read before it is written)
Uninitialized == -1

\* uint16_t arithmetic
Uint16(n) == n % 65536

\* line 176 without the clamp to the rows that remain
rowsThisAt_NoClamp(row) == rowsPerChunk

\* line 176
rowsThisAt(row) == Min(rowsPerChunk, HEIGHT - row)
\* line 177
bytesNeededAt(row) == WIDTH * rowsThisAt(row) * 2

\* readFully returning true as soon as something was received
readFully_AcceptsShort(buf, len, data) ==
  LET got == Min(len, Len(data))
  IN  [buf |-> [i \in 1..Len(buf) |-> IF i <= got THEN data[i] ELSE buf[i]],
       got |-> got,
       ok  |-> got > 0]

\* readFully(client, buf, len, timeout) when `data` is what the client
\* delivers before the deadline: at most len bytes are taken
readFully(buf, len, data) ==
  LET got == Min(len, Len(data))
  IN  [buf |-> [i \in 1..Len(buf) |-> IF i <= got THEN data[i] ELSE buf[i]],
       got |-> got,
       ok  |-> got = len]

\* one pixel from its two wire bytes (line 191)
Word(lo, hi) == lo + 256 * hi

\* the conversion loop (lines 187-192); buffers are indexed from 1
convert(bytes, words, pixelsInChunk) ==
  [i \in 1..Len(words) |->
     IF i <= pixelsInChunk THEN Word(bytes[2 * i - 1], bytes[2 * i]) ELSE words[i]]

\* a pushImage that adds the new pixel to the pixel already shown
pushImage_Blend(d, x, row, w, h, data) ==
  [r \in 0..(HEIGHT - 1) |->
     IF r >= row /\ r < row + h
     THEN [c \in 1..WIDTH |->
             IF c - 1 >= x /\ c - 1 < x + w
             THEN (d[r][c] + data[(r - row) * w + (c - 1 - x) + 1]) % 65536
             ELSE d[r][c]]
     ELSE d[r]]

\* tft.pushImage(x, row, w, h, data) on a display of HEIGHT rows of WIDTH
\* pixels; display[r][c + 1] is the pixel of row r, column c
pushImage(d, x, row, w, h, data) ==
  [r \in 0..(HEIGHT - 1) |->
     IF r >= row /\ r < row + h
     THEN [c \in 1..WIDTH |->
             IF c - 1 >= x /\ c - 1 < x + w
             THEN data[(r - row) * w + (c - 1 - x) + 1]
             ELSE d[r][c]]
     ELSE d[r]]

\* free(p) on the state of one allocation
free(h, buf) ==
  [h EXCEPT ![buf] = IF h[buf] = "live" THEN "freed"
                     ELSE IF h[buf] = "freed" THEN "double free"
                     ELSE h[buf]]

\* ---------------------------------------------------------------------- state
VARIABLES
  pc,            \* position of loop(); "poll" is between two calls of loop()
  conns,         \* connections accepted so far
  connOpen,      \* the accepted client is connected (client.stop() not called)
  sent,          \* responses printed to the current client
  requestLine,   \* the trimmed request line
  contentLength, \* the declared length
  heap,          \* state of the two chunk allocations
  byteBuf,       \* content of the wire buffer
  wordBuf,       \* content of the native buffer
  y,             \* row cursor of the chunk loop
  error,         \* a chunk read timed out
  display,       \* the pixels on the TFT
  body,          \* the body the current client uploads
  unread,        \* bytes in flight ahead of the body when the headers ended
  consumed,      \* bytes taken from the connection after the headers
  pushed,        \* the rectangles pushed by this cycle: <<row, rows>>
  headersRead,   \* this cycle has read a header line
  reads,         \* the calls of readFully of this cycle: <<row, len, got>>
  stalled,       \* first row of the chunk whose bytes did not all arrive
  oom,           \* the allocation the heap refused in this cycle
  before,        \* the pixels on the TFT when the current client was accepted
  prevUpload,    \* <<body, unread>> of the cycle before, if it answered 200
  mallocs,       \* successful calls of malloc in this cycle
  lastCL,        \* the last Content-Length line, while the headers are read
  rd             \* a call of readHeaderLine or readFully with its clock

vars ==
  <<pc, conns, connOpen, sent, requestLine, contentLength, heap, byteBuf,
    wordBuf, y, error, display, body, unread, consumed, pushed, headersRead,
    reads, stalled, oom, before, prevUpload, mallocs, lastCL, rd>>

\* the byte at offset k (from 0) of what follows the header section
StreamByte(k) ==
  IF k < Len(unread) THEN unread[k + 1] ELSE BodyByte(body, k - Len(unread))

NoHeap == [byteBuf |-> "null", wordBuf |-> "null"]
\* value of rd while no call of the two readers is followed step by step
NoCall == [fn |-> "none"]
\* value of stalled while every chunk read so far was delivered in full
NoStall == 0 - 1

\* setup(): the server is listening and the screen is black
Init ==
  /\ pc = "poll"
  /\ conns = 0
  /\ connOpen = FALSE
  /\ sent = <<>>
  /\ requestLine = <<>>
  /\ contentLength = 0
  /\ heap = NoHeap
  /\ byteBuf = <<>>
  /\ wordBuf = <<>>
  /\ y = 0
  /\ error = FALSE
  /\ display = [r \in 0..(HEIGHT - 1) |-> [c \in 1..WIDTH |-> TFT_BLACK]]
  /\ body \in Bodies
  /\ unread = <<>>
  /\ consumed = 0
  /\ pushed = <<>>
  /\ headersRead = FALSE
  /\ reads = <<>>
  /\ stalled = NoStall
  /\ oom = "none"
  /\ before = display
  /\ prevUpload = <<>>
  /\ mallocs = 0
  /\ lastCL = <<>>
  /\ rd = NoCall

\* lines 100-107 with the screen cleared for each client
Accept_ClearsScreen ==
  /\ pc = "poll"
  /\ conns < MaxConns
  /\ conns' = conns + 1
  /\ connOpen' = TRUE
  /\ sent' = <<>>
  /\ requestLine' = <<>>
  /\ contentLength' = 0
  /\ heap' = NoHeap
  /\ byteBuf' = <<>>
  /\ wordBuf' = <<>>
  /\ y' = 0
  /\ error' = FALSE
  /\ body' \in Bodies
  /\ unread' = <<>>
  /\ consumed' = 0
  /\ pushed' = <<>>
  /\ headersRead' = FALSE
  /\ reads' = <<>>
  /\ stalled' = NoStall
  /\ oom' = "none"
  /\ pc' = "request"
  /\ before' = display
  /\ prevUpload' = IF Len(sent) = 1 /\ sent[1].status = StatusLine(200)
                   THEN <<body, unread>>
                   ELSE <<>>
  /\ mallocs' = 0
  /\ lastCL' = <<>>
  /\ display' = [r \in 0..(HEIGHT - 1) |-> [c \in 1..WIDTH |-> TFT_BLACK]]
  /\ UNCHANGED rd

\* ------------------------------------------------------------------ loop()
\* server.available() returns a client; the locals of loop() start afresh
Accept ==
  /\ pc = "poll"
  /\ conns < MaxConns
  /\ conns' = conns + 1
  /\ connOpen' = TRUE
  /\ sent' = <<>>
  /\ requestLine' = <<>>
  /\ contentLength' = 0
  /\ heap' = NoHeap
  /\ byteBuf' = <<>>
  /\ wordBuf' = <<>>
  /\ y' = 0
  /\ error' = FALSE
  /\ body' \in Bodies
  /\ unread' = <<>>
  /\ consumed' = 0
  /\ pushed' = <<>>
  /\ headersRead' = FALSE
  /\ reads' = <<>>
  /\ stalled' = NoStall
  /\ oom' = "none"
  /\ pc' = "request"
  /\ before' = display
  /\ prevUpload' = IF Len(sent) = 1 /\ sent[1].status = StatusLine(200)
                   THEN <<body, unread>>
                   ELSE <<>>
  /\ mallocs' = 0
  /\ lastCL' = <<>>
  /\ UNCHANGED <<display, rd>>

\* the test of line 118 without the path
RequestMatches_MethodOnly(line) == startsWith(line, POST_)

\* the test of line 118
RequestMatches(line) == startsWith(line, POST_) /\ indexOf(line, UPDATE_IMAGE) >= 0

\* lines 109-123
ReadRequestLine ==
  /\ pc = "request"
  /\ \E avail \in RequestWires :
       LET line == trim(readHeaderLine(avail).line)
       IN  /\ requestLine' = line
           /\ IF Len(line) = 0
              THEN /\ connOpen' = FALSE
                   /\ sent' = sent
                   /\ pc' = "poll"
              ELSE IF ~RequestMatches(line)
              THEN /\ sent' = sendSimpleResponse(sent, 404, "Not found")
                   /\ connOpen' = FALSE
                   /\ pc' = "poll"
              ELSE /\ sent' = sent
                   /\ connOpen' = connOpen
                   /\ pc' = "headers"
  /\ UNCHANGED <<conns, contentLength, heap, byteBuf, wordBuf, y, error,
                 display, body, unread, consumed, pushed, headersRead,
                 reads, stalled, oom,
                 before, prevUpload, rd, mallocs, lastCL>>

\* lines 130-138 with a declared length that is not overwritten
ParseHeader_KeepsFirst(cl, h) ==
  IF startsWith(toLowerCase(h), CONTENT_LENGTH_) /\ cl = 0
  THEN toInt(trim(substring(h, indexOf(h, <<":">>) + 1)))
  ELSE cl

\* lines 130-138: the declared length after header line h.  The lengths that
\* clients declare here are not negative and below 2^31, where the cast to
\* size_t of line 135 changes nothing.
ParseHeader(cl, h) ==
  IF startsWith(toLowerCase(h), CONTENT_LENGTH_)
  THEN toInt(trim(substring(h, indexOf(h, <<":">>) + 1)))
  ELSE cl

\* a header line whose name is Content-Length, in any case of its letters
IsContentLengthLine(line) ==
  /\ Len(line) >= Len(CONTENT_LENGTH_)
  /\ SubSeq(toLowerCase(line), 1, Len(CONTENT_LENGTH_)) = CONTENT_LENGTH_

\* lines 127-139 with a timeout of readHeaderLine told apart from an empty
\* line: the connection is closed
ReadHeader_TimeoutAborts ==
  /\ pc = "headers"
  /\ \E avail \in HeaderWires :
       LET r == readHeaderLine(avail)
       IN  /\ headersRead' = TRUE
           /\ IF Len(r.line) = 0
              THEN /\ pc' = IF r.timedOut THEN "poll" ELSE "length"
                   /\ connOpen' = IF r.timedOut THEN FALSE ELSE connOpen
                   /\ contentLength' = contentLength
                   /\ unread' = IF r.timedOut THEN BlankLineBytes ELSE <<>>
                   /\ lastCL' = lastCL
              ELSE /\ pc' = "headers"
                   /\ connOpen' = connOpen
                   /\ contentLength' = ParseHeader(contentLength, r.line)
                   /\ unread' = unread
                   /\ lastCL' = IF IsContentLengthLine(r.line)
                                THEN r.line
                                ELSE lastCL
  /\ UNCHANGED <<conns, sent, requestLine, heap, byteBuf, wordBuf, y,
                 error, display, body, consumed, pushed,
                 reads, stalled, oom, before, prevUpload, rd, mallocs>>

\* lines 127-139, one iteration
ReadHeader ==
  /\ pc = "headers"
  /\ \E avail \in HeaderWires :
       LET r == readHeaderLine(avail)
       IN  /\ headersRead' = TRUE
           /\ IF Len(r.line) = 0
              THEN /\ pc' = "length"
                   /\ contentLength' = contentLength
                   /\ unread' = IF r.timedOut THEN BlankLineBytes ELSE <<>>
                   /\ lastCL' = lastCL
              ELSE /\ pc' = "headers"
                   /\ contentLength' = ParseHeader(contentLength, r.line)
                   /\ unread' = unread
                   /\ lastCL' = IF IsContentLengthLine(r.line)
                                THEN r.line
                                ELSE lastCL
  /\ UNCHANGED <<conns, connOpen, sent, requestLine, heap, byteBuf, wordBuf, y,
                 error, display, body, consumed, pushed,
                 reads, stalled, oom,
                 before, prevUpload, rd, mallocs>>

\* the test of line 141 rejecting only a shorter length
LengthAccepted_AtLeast(cl) == cl >= TOTAL_BYTES

\* the test of line 141
LengthAccepted(cl) == cl = TOTAL_BYTES

\* lines 141-147
CheckLength ==
  /\ pc = "length"
  /\ lastCL' = <<>>
  /\ IF ~LengthAccepted(contentLength)
     THEN /\ sent' = sendSimpleResponse(sent, 400,
                       "Expected " \o ToString(TOTAL_BYTES) \o " bytes, got "
                         \o ToString(contentLength))
          /\ connOpen' = FALSE
          /\ pc' = "poll"
     ELSE /\ sent' = sent
          /\ connOpen' = connOpen
          /\ pc' = "allocByte"
  /\ UNCHANGED <<conns, requestLine, contentLength, heap, byteBuf, wordBuf, y,
                 error, display, body, unread, consumed, pushed, headersRead,
                 reads, stalled, oom,
                 before, prevUpload, rd, mallocs>>

\* lines 154-160 without the return of line 159
AllocByteBuf_NoReturn ==
  /\ pc = "allocByte"
  /\ \E ok \in BOOLEAN :
       IF ok
       THEN /\ heap' = [heap EXCEPT !.byteBuf = "live"]
            /\ byteBuf' = [i \in 1..bytesPerChunk |-> Uninitialized]
            /\ mallocs' = mallocs + 1
            /\ sent' = sent
            /\ connOpen' = connOpen
            /\ oom' = oom
       ELSE /\ sent' = sendSimpleResponse(sent, 500, "OOM byteBuf")
            /\ connOpen' = FALSE
            /\ oom' = "byteBuf"
            /\ UNCHANGED <<heap, byteBuf, mallocs>>
  /\ pc' = "allocWord"
  /\ UNCHANGED <<conns, requestLine, contentLength, wordBuf, y, error, display,
                 body, unread, consumed, pushed, headersRead, reads, stalled,
                 before, prevUpload, rd, lastCL>>

\* lines 154-160
AllocByteBuf ==
  /\ pc = "allocByte"
  /\ \E ok \in BOOLEAN :
       IF ok
       THEN /\ heap' = [heap EXCEPT !.byteBuf = "live"]
            /\ byteBuf' = [i \in 1..bytesPerChunk |-> Uninitialized]
            /\ mallocs' = mallocs + 1
            /\ sent' = sent
            /\ connOpen' = connOpen
            /\ pc' = "allocWord"
            /\ oom' = oom
       ELSE /\ sent' = sendSimpleResponse(sent, 500, "OOM byteBuf")
            /\ connOpen' = FALSE
            /\ pc' = "poll"
            /\ oom' = "byteBuf"
            /\ UNCHANGED <<heap, byteBuf, mallocs>>
  /\ UNCHANGED <<conns, requestLine, contentLength, wordBuf, y, error, display,
                 body, unread, consumed, pushed, headersRead, reads, stalled,
                 before, prevUpload, rd, lastCL>>

\* lines 161-175 without the free of line 163
AllocWordBuf_Leaks ==
  /\ pc = "allocWord"
  /\ \E ok \in BOOLEAN :
       IF ok
       THEN /\ heap' = [heap EXCEPT !.wordBuf = "live"]
            /\ wordBuf' = [i \in 1..wordsPerChunk |-> Uninitialized]
            /\ mallocs' = mallocs + 1
            /\ error' = FALSE
            /\ y' = 0
            /\ pc' = IF 0 < HEIGHT THEN "read" ELSE "free"
            /\ UNCHANGED <<byteBuf, sent, connOpen, oom>>
       ELSE /\ oom' = "wordBuf"
            /\ sent' = sendSimpleResponse(sent, 500, "OOM wordBuf")
            /\ connOpen' = FALSE
            /\ pc' = "poll"
            /\ UNCHANGED <<wordBuf, error, y, heap, byteBuf, mallocs>>
  /\ UNCHANGED <<conns, requestLine, contentLength, display, body, unread,
                 consumed, pushed, headersRead, reads, stalled,
                 before, prevUpload, rd, lastCL>>

\* lines 161-175: the second allocation, then the loop is entered at row 0
AllocWordBuf ==
  /\ pc = "allocWord"
  /\ \E ok \in BOOLEAN :
       IF ok
       THEN /\ heap' = [heap EXCEPT !.wordBuf = "live"]
            /\ wordBuf' = [i \in 1..wordsPerChunk |-> Uninitialized]
            /\ mallocs' = mallocs + 1
            /\ error' = FALSE
            /\ y' = 0
            /\ pc' = IF 0 < HEIGHT THEN "read" ELSE "free"
            /\ UNCHANGED <<byteBuf, sent, connOpen, oom>>
       ELSE /\ heap' = free(heap, "byteBuf")
            /\ oom' = "wordBuf"
            /\ byteBuf' = <<>>
            /\ sent' = sendSimpleResponse(sent, 500, "OOM wordBuf")
            /\ connOpen' = FALSE
            /\ pc' = "poll"
            /\ UNCHANGED <<wordBuf, error, y, mallocs>>
  /\ UNCHANGED <<conns, requestLine, contentLength, display, body, unread,
                 consumed, pushed, headersRead, reads, stalled,
                 before, prevUpload, rd, lastCL>>

\* the chunks (by their first row) in which a client may stall
StallRows == {0, 64, 132}

\* how many bytes of the stream arrive before the deadline of the read of len
\* bytes for the chunk at row
Arrivals(row, len) == IF row \in StallRows THEN {0, len - 1, len} ELSE {len}

\* lines 176-184 without the break of line 183: after the timeout response
\* the chunk is converted and pushed
ReadChunk_NoBreak ==
  /\ pc = "read"
  /\ \E n \in Arrivals(y, bytesNeededAt(y)) :
     \E data \in {[i \in 1..n |-> StreamByte(consumed + i - 1)]} :
     \E r \in {readFully(byteBuf, bytesNeededAt(y), data)} :
           /\ byteBuf' = r.buf
           /\ consumed' = consumed + r.got
           /\ reads' = Append(reads, <<y, bytesNeededAt(y), r.got>>)
           /\ stalled' = IF n < bytesNeededAt(y) THEN y ELSE stalled
           /\ IF ~r.ok
              THEN /\ sent' = sendSimpleResponse(sent, 408, "Timeout receiving body")
                   /\ error' = TRUE
              ELSE /\ sent' = sent
                   /\ error' = error
           /\ pc' = "convert"
  /\ UNCHANGED <<conns, connOpen, requestLine, contentLength, heap, wordBuf, y,
                 display, body, unread, pushed, headersRead, oom,
                 before, prevUpload, rd, mallocs, lastCL>>

\* lines 176-184; data is what the client delivers before the deadline, r
\* what readFully makes of it
ReadChunk ==
  /\ pc = "read"
  /\ \E n \in Arrivals(y, bytesNeededAt(y)) :
     \E data \in {[i \in 1..n |-> StreamByte(consumed + i - 1)]} :
     \E r \in {readFully(byteBuf, bytesNeededAt(y), data)} :
           /\ byteBuf' = r.buf
           /\ consumed' = consumed + r.got
           /\ reads' = Append(reads, <<y, bytesNeededAt(y), r.got>>)
           /\ stalled' = IF n < bytesNeededAt(y) THEN y ELSE stalled
           /\ IF ~r.ok
              THEN /\ sent' = sendSimpleResponse(sent, 408, "Timeout receiving body")
                   /\ error' = TRUE
                   /\ pc' = "free"
              ELSE /\ sent' = sent
                   /\ error' = error
                   /\ pc' = "convert"
  /\ UNCHANGED <<conns, connOpen, requestLine, contentLength, heap, wordBuf, y,
                 display, body, unread, pushed, headersRead, oom,
                 before, prevUpload, rd, mallocs, lastCL>>

\* lines 187-192
ConvertChunk ==
  /\ pc = "convert"
  /\ wordBuf' = convert(byteBuf, wordBuf, WIDTH * rowsThisAt(y))
  /\ pc' = "push"
  /\ UNCHANGED <<conns, connOpen, sent, requestLine, contentLength, heap,
                 byteBuf, y, error, display, body, unread, consumed, pushed,
                 headersRead,
                 reads, stalled, oom,
                 before, prevUpload, rd, mallocs, lastCL>>

\* line 195, then the step and the test of the for loop (line 175)
PushChunk ==
  /\ pc = "push"
  /\ display' = pushImage(display, 0, y, WIDTH, rowsThisAt(y), wordBuf)
  /\ pushed' = Append(pushed, <<y, rowsThisAt(y)>>)
  /\ y' = Uint16(y + rowsPerChunk)
  /\ pc' = IF y' < HEIGHT THEN "read" ELSE "free"
  /\ UNCHANGED <<conns, connOpen, sent, requestLine, contentLength, heap,
                 byteBuf, wordBuf, error, body, unread, consumed, headersRead,
                 reads, stalled, oom,
                 before, prevUpload, rd, mallocs, lastCL>>

\* lines 198-199
FreeBuffers ==
  /\ pc = "free"
  /\ heap' = free(free(heap, "byteBuf"), "wordBuf")
  /\ byteBuf' = <<>>
  /\ wordBuf' = <<>>
  /\ pc' = "finish"
  /\ UNCHANGED <<conns, connOpen, sent, requestLine, contentLength, y, error,
                 display, body, unread, consumed, pushed, headersRead,
                 reads, stalled, oom,
                 before, prevUpload, rd, mallocs, lastCL>>

\* lines 201-205 without the test of line 201
Finish_AlwaysOk ==
  /\ pc = "finish"
  /\ sent' = sendSimpleResponse(sent, 200, "OK")
  /\ connOpen' = FALSE
  /\ pc' = "poll"
  /\ UNCHANGED <<conns, requestLine, contentLength, heap, byteBuf, wordBuf, y,
                 error, display, body, unread, consumed, pushed, headersRead,
                 reads, stalled, oom,
                 before, prevUpload, rd, mallocs, lastCL>>

\* lines 201-204 without the client.stop() of line 205
Finish_NoStop ==
  /\ pc = "finish"
  /\ sent' = IF ~error THEN sendSimpleResponse(sent, 200, "OK") ELSE sent
  /\ pc' = "poll"
  /\ UNCHANGED <<conns, connOpen, requestLine, contentLength, heap, byteBuf,
                 wordBuf, y, error, display, body, unread, consumed, pushed,
                 headersRead, reads, stalled, oom,
                 before, prevUpload, rd, mallocs, lastCL>>

\* lines 201-205
Finish ==
  /\ pc = "finish"
  /\ sent' = IF ~error THEN sendSimpleResponse(sent, 200, "OK") ELSE sent
  /\ connOpen' = FALSE
  /\ pc' = "poll"
  /\ UNCHANGED <<conns, requestLine, contentLength, heap, byteBuf, wordBuf, y,
                 error, display, body, unread, consumed, pushed, headersRead,
                 reads, stalled, oom,
                 before, prevUpload, rd, mallocs, lastCL>>

Next ==
  \/ Accept
  \/ ReadRequestLine
  \/ ReadHeader
  \/ CheckLength
  \/ AllocByteBuf
  \/ AllocWordBuf
  \/ ReadChunk
  \/ ConvertChunk
  \/ PushChunk
  \/ FreeBuffers
  \/ Finish

Spec == Init /\ [][Next]_vars

\* every step of loop() after the accept
ServeStep ==
  \/ ReadRequestLine
  \/ ReadHeader
  \/ CheckLength
  \/ AllocByteBuf
  \/ AllocWordBuf
  \/ ReadChunk
  \/ ConvertChunk
  \/ PushChunk
  \/ FreeBuffers
  \/ Finish

\* loop() runs on: a step of the server that is possible is taken
LiveSpec == Init /\ [][Next]_vars /\ WF_vars(ServeStep)

\* ------------------------------------------- the two readers, step by step
\* One call of readHeaderLine, or the calls of readFully of one chunk loop,
\* followed iteration by iteration with the value of millis().  The client
\* delivers bytes at any moment; delay(1) lets one millisecond pass, and a
\* millisecond may pass while a read is executed.  rd holds the locals of the
\* call (start, line, got), the clock (now), the bytes received and not yet
\* read (rx) and, for the claims, what happened to the call.
MaxTimeoutMs == 2
MaxClock == 5
MaxLine == 3
MaxRx == 2
MaxLen == 2
MaxCalls == 3

Timeouts == 1..MaxTimeoutMs
WireChars == {"a", "\r", "\n"}

\* everything but rd, while a reader is followed on its own
serverVars ==
  <<pc, conns, connOpen, sent, requestLine, contentLength, heap, byteBuf,
    wordBuf, y, error, display, body, unread, consumed, pushed, headersRead,
    reads, stalled, oom, before, prevUpload, mallocs, lastCL>>

\* lines 24-26: line is empty and start is millis()
LineCall(t) ==
  [fn |-> "readHeaderLine", timeoutMs |-> t, start |-> 0, now |-> 0,
   rx |-> <<>>, line |-> <<>>, at |-> "loop", result |-> <<>>, late |-> FALSE]

\* a start of readFully that is the start of the first chunk's read
CallStart_Cumulative(nowMs, first) == first

\* line 48: start is millis() of this call
CallStart(nowMs, first) == nowMs

\* lines 46-48: got is 0 and start is millis()
FullyCall(t, n) ==
  [fn |-> "readFully", timeoutMs |-> t, len |-> n, got |-> 0,
   start |-> CallStart(0, 0), now |-> 0, rx |-> 0, at |-> "loop", calls |-> 0,
   first |-> 0, began |-> 0, inTime |-> FALSE]

ReaderInit ==
  /\ pc = "poll"
  /\ conns = 0
  /\ connOpen = FALSE
  /\ sent = <<>>
  /\ requestLine = <<>>
  /\ contentLength = 0
  /\ heap = NoHeap
  /\ byteBuf = <<>>
  /\ wordBuf = <<>>
  /\ y = 0
  /\ error = FALSE
  /\ display = <<>>
  /\ body = 0
  /\ unread = <<>>
  /\ consumed = 0
  /\ pushed = <<>>
  /\ headersRead = FALSE
  /\ reads = <<>>
  /\ stalled = NoStall
  /\ oom = "none"
  /\ before = <<>>
  /\ prevUpload = <<>>
  /\ mallocs = 0
  /\ lastCL = <<>>
  /\ rd \in {LineCall(t) : t \in Timeouts}
            \cup {FullyCall(t, n) : t \in Timeouts, n \in 1..MaxLen}

\* the values of millis() after an operation that began at nowMs and takes
\* less than a millisecond
Ticks(nowMs) == {nowMs} \cup {t \in {nowMs + 1} : t <= MaxClock}

\* a byte of the client reaches the receive buffer
LineDeliver ==
  /\ rd.fn = "readHeaderLine"
  /\ rd.at = "loop"
  /\ Len(rd.rx) < MaxRx
  /\ \E c \in WireChars : rd' = [rd EXCEPT !.rx = Append(@, c)]
  /\ UNCHANGED serverVars

\* lines 28-38, one iteration: a byte is available and is read
LineRead ==
  /\ rd.fn = "readHeaderLine"
  /\ rd.at = "loop"
  /\ Len(rd.rx) > 0
  /\ rd.rx[1] = "\n" \/ Len(rd.line) < MaxLine
  /\ \E t \in Ticks(rd.now) :
       rd' = IF rd.rx[1] = "\n"
             THEN [rd EXCEPT !.rx = Tail(@), !.now = t, !.at = "returned",
                             !.result = TrimCR(rd.line),
                             !.late = @ \/ rd.now - rd.start > rd.timeoutMs]
             ELSE [rd EXCEPT !.rx = Tail(@), !.now = t,
                             !.line = Append(@, rd.rx[1]),
                             !.late = @ \/ rd.now - rd.start > rd.timeoutMs]
  /\ UNCHANGED serverVars

\* lines 39-43: no byte is available
LineIdle ==
  /\ rd.fn = "readHeaderLine"
  /\ rd.at = "loop"
  /\ Len(rd.rx) = 0
  /\ IF rd.now - rd.start > rd.timeoutMs
     THEN rd' = [rd EXCEPT !.at = "returned", !.result = TrimCR(rd.line)]
     ELSE /\ rd.now < MaxClock
          /\ rd' = [rd EXCEPT !.now = @ + 1]
  /\ UNCHANGED serverVars

\* k bytes of the body reach the receive buffer, during a call of readFully
\* or between two calls
FullyDeliver ==
  /\ rd.fn = "readFully"
  /\ rd.at \in {"loop", "accepted"}
  /\ \E k \in 1..(MaxRx - rd.rx) :
       rd' = [rd EXCEPT !.rx = @ + k,
                        !.inTime = @ \/ (/\ rd.at = "loop"
                                         /\ rd.got + rd.rx + k >= rd.len
                                         /\ rd.now - rd.began < rd.timeoutMs)]
  /\ UNCHANGED serverVars

\* lines 49-52, one iteration: bytes are available and are read
FullyRead ==
  /\ rd.fn = "readFully"
  /\ rd.at = "loop"
  /\ rd.got < rd.len /\ rd.now - rd.start < rd.timeoutMs
  /\ rd.rx > 0
  /\ \E t \in Ticks(rd.now) :
       rd' = [rd EXCEPT !.got = @ + Min(rd.rx, rd.len - rd.got),
                        !.rx = @ - Min(rd.rx, rd.len - rd.got),
                        !.now = t]
  /\ UNCHANGED serverVars

\* lines 49-55, one iteration: no byte is available, delay(1)
FullyIdle ==
  /\ rd.fn = "readFully"
  /\ rd.at = "loop"
  /\ rd.got < rd.len /\ rd.now - rd.start < rd.timeoutMs
  /\ rd.rx = 0
  /\ rd.now < MaxClock
  /\ rd' = [rd EXCEPT !.now = @ + 1]
  /\ UNCHANGED serverVars

\* lines 49 and 57: the loop ends and got == len is returned
FullyReturn ==
  /\ rd.fn = "readFully"
  /\ rd.at = "loop"
  /\ ~(rd.got < rd.len /\ rd.now - rd.start < rd.timeoutMs)
  /\ rd' = IF rd.got = rd.len
           THEN [rd EXCEPT !.at = "accepted", !.calls = @ + 1]
           ELSE [rd EXCEPT !.at = "timedOut"]
  /\ UNCHANGED serverVars

\* lines 175-179 and 46-48: after the chunk is converted and pushed, the next
\* chunk is read by a new call
FullyAgain ==
  /\ rd.fn = "readFully"
  /\ rd.at = "accepted"
  /\ rd.calls < MaxCalls
  /\ \E t \in Ticks(rd.now) :
       rd' = [rd EXCEPT !.now = t, !.start = CallStart(t, rd.first),
                        !.began = t, !.got = 0, !.at = "loop",
                        !.inTime = rd.rx >= rd.len]
  /\ UNCHANGED serverVars

ReaderNext ==
  \/ LineDeliver
  \/ LineRead
  \/ LineIdle
  \/ FullyDeliver
  \/ FullyRead
  \/ FullyIdle
  \/ FullyReturn
  \/ FullyAgain

ReaderSpec == ReaderInit /\ [][ReaderNext]_vars

\* ------------------------------------------------------ the terms of the claims
\* a request line of the recognized method and path
IsUploadRequest(line) ==
  /\ Len(line) >= Len(POST_)
  /\ \A i \in 1..Len(POST_) : line[i] = POST_[i]
  /\ \E k \in 0..(Len(line) - Len(UPDATE_IMAGE)) :
       \A i \in 1..Len(UPDATE_IMAGE) : line[k + i] = UPDATE_IMAGE[i]

\* the status code a client reads in a response
StatusCodeOf(resp) == toInt(substring(resp.status, Len(HTTP_1_1)))

\* loop() has returned from a cycle that accepted a connection
Returned == pc = "poll" /\ conns > 0

\* exactly one response was written, with this code
Answered(code) == Len(sent) = 1 /\ StatusCodeOf(sent[1]) = code

\* pixel (r, c) of the uploaded body: row-major, little-endian, 16 bits
PixelOfBody(r, c) ==
  BodyByte(body, 2 * (r * WIDTH + c)) + 256 * BodyByte(body, 2 * (r * WIDTH + c) + 1)

\* pixel (r, c) of the bytes that followed the header section on the connection
PixelOfStream(r, c) ==
  StreamByte(2 * (r * WIDTH + c)) + 256 * StreamByte(2 * (r * WIDTH + c) + 1)

DisplayShowsBody ==
  \A r \in 0..(HEIGHT - 1) : \A c \in 0..(WIDTH - 1) : display[r][c + 1] = PixelOfBody(r, c)

\* the rows of the rectangles pushed in this cycle
RowsOf(k) == pushed[k][1]..(pushed[k][1] + pushed[k][2] - 1)
RowsWritten == UNION {RowsOf(k) : k \in DOMAIN pushed}

\* the rectangles cover every row once, in increasing row order
RowsPushedOnceInOrder ==
  /\ \A r \in 0..(HEIGHT - 1) : Cardinality({k \in DOMAIN pushed : r \in RowsOf(k)}) = 1
  /\ \A k \in DOMAIN pushed : RowsOf(k) \subseteq 0..(HEIGHT - 1)
  /\ \A k \in DOMAIN pushed : k > 1 => pushed[k][1] > pushed[k - 1][1]

\* no uninitialized memory reaches the screen
DisplayInitialized ==
  \A r \in 0..(HEIGHT - 1) : \A c \in 1..WIDTH : display[r][c] \in 0..65535

\* --------------------------------------------------------------------- claims

\* C1: whenever a body chunk read does not complete within its deadline, the
\* response written to the client has status 408 and body 'Timeout receiving
\* body'.
C1_BodyTimeoutAnswered408 ==
  stalled # NoStall =>
    /\ Answered(408)
    /\ sent[1].body = "Timeout receiving body"

\* C2: for every valid upload (recognized request line, declared length
\* WIDTH*HEIGHT*2, every chunk delivered within its deadline), when the 200
\* response is sent every pixel (r, c) of the display is
\* body[2*(r*WIDTH+c)] + 256*body[2*(r*WIDTH+c)+1], and the pushed rectangles
\* cover each row exactly once, in increasing row order.
C2_ValidUploadDisplayed ==
  (/\ Returned
   /\ IsUploadRequest(requestLine)
   /\ contentLength = WIDTH * HEIGHT * 2
   /\ stalled = NoStall
   /\ Answered(200))
  => (DisplayShowsBody /\ RowsPushedOnceInOrder)

\* the same when the blank line that ends the headers was read as a line
UploadDisplayedAfterBlankLine ==
  (Returned /\ Answered(200) /\ unread = <<>>)
  => (DisplayShowsBody /\ RowsPushedOnceInOrder)

\* C3 as claimed: a request line that is not of the recognized method and
\* path, an empty one included, is answered 404 and no header line is read.
C3_UnrecognizedAnswered404 ==
  (conns > 0 /\ pc # "request" /\ ~IsUploadRequest(requestLine))
  => (pc = "poll" /\ ~headersRead /\ Answered(404))

\* C3: a request line that is not empty and not of the recognized method and
\* path is answered 404 'Not found'; an empty one (blank, white space only or
\* nothing received in time) gets no response; in both cases the cycle ends
\* with the connection closed and without reading a header line.
C3_UnrecognizedRejected ==
  (conns > 0 /\ pc # "request" /\ ~IsUploadRequest(requestLine))
  => /\ pc = "poll"
     /\ ~connOpen
     /\ ~headersRead
     /\ contentLength = 0
     /\ IF Len(requestLine) = 0
        THEN sent = <<>>
        ELSE Answered(404) /\ sent[1].body = "Not found"

C3_Witness ==
  /\ Returned
  /\ Len(requestLine) > 0
  /\ ~IsUploadRequest(requestLine)
  /\ requestLine[1] = "P"
  /\ Answered(404)

\* C4: a recognized request whose declared length differs from
\* WIDTH*HEIGHT*2 is answered 400 and nothing after the header section is
\* taken from the connection: readFully is not called, no buffer is
\* allocated, the display is not written.
C4_LengthMismatchRejected ==
  (/\ conns > 0
   /\ pc \notin {"request", "headers", "length"}
   /\ IsUploadRequest(requestLine)
   /\ contentLength # WIDTH * HEIGHT * 2)
  => /\ pc = "poll"
     /\ Answered(400)
     /\ sent[1].body = "Expected 64800 bytes, got " \o ToString(contentLength)
     /\ consumed = 0
     /\ reads = <<>>
     /\ heap = NoHeap
     /\ pushed = <<>>

C4_Witness ==
  /\ Returned
  /\ IsUploadRequest(requestLine)
  /\ contentLength > WIDTH * HEIGHT * 2
  /\ Answered(400)

\* C5: when the client stalls in the chunk that starts at row y, the display
\* was written for exactly the rows [0, y), which show the chunks received
\* before; the chunk that was not received in full is not pushed, and no
\* chunk is read or pushed afterwards.
C5_NoPartialChunkDrawn ==
  stalled # NoStall =>
    /\ pc \in {"free", "finish", "poll"}
    /\ RowsWritten = 0..(stalled - 1)
    /\ Len(pushed) = Len(reads) - 1
    /\ \A k \in DOMAIN pushed : reads[k][1] = pushed[k][1] /\ reads[k][3] = reads[k][2]
    /\ reads[Len(reads)][1] = stalled
    /\ reads[Len(reads)][3] < reads[Len(reads)][2]
    /\ \A r \in 0..(stalled - 1) : \A c \in 0..(WIDTH - 1) :
         display[r][c + 1] = PixelOfStream(r, c)

C5_Witness ==
  /\ Returned
  /\ stalled = 64
  /\ reads[Len(reads)][3] > 0
  /\ Len(pushed) = 16

\* C6: every cycle that accepted a connection has closed it when loop()
\* returns, on every exit path.
C6_ConnectionClosedOnReturn == pc = "poll" => ~connOpen

C6_Witness == Returned /\ ~connOpen /\ stalled # NoStall /\ Len(pushed) > 0

\* C7: when loop() returns neither chunk buffer is allocated, and no buffer
\* is ever freed twice: each buffer that was allocated is freed exactly once.
C7_BuffersFreedOnce ==
  \A b \in {"byteBuf", "wordBuf"} :
    /\ heap[b] # "double free"
    /\ pc = "poll" => heap[b] \in {"null", "freed"}

C7_Witness ==
  Returned /\ oom = "wordBuf" /\ heap = [byteBuf |-> "freed", wordBuf |-> "null"]

\* C8: after accepting a connection the server eventually finishes the cycle
\* and polls for the next connection, whatever the client does.
C8_ReturnsToPolling == (pc # "poll") ~> (pc = "poll")

\* C9: when either chunk buffer cannot be allocated, no body read is
\* attempted, the display is not written, the response is 500 with the body
\* 'OOM <buffer-name>', and the connection is closed.
C9_AllocationFailureAnswered500 ==
  oom # "none" =>
    /\ pc = "poll"
    /\ reads = <<>>
    /\ consumed = 0
    /\ pushed = <<>>
    /\ Answered(500)
    /\ sent[1].body = "OOM " \o oom
    /\ ~connOpen

C9_Witness == Returned /\ oom = "byteBuf" /\ Answered(500) /\ heap = NoHeap

\* a transfer that was answered 200
Transferred == Returned /\ Answered(200)

\* C10 as claimed: with 240 x 135 and 4 rows per chunk, a successful transfer
\* is 34 chunks of 4 rows reading 3840 bytes each, then one chunk of 3 rows
\* reading 2880 bytes; 64800 bytes in all, answered 200 OK.
C10_Chunks34Of3840 ==
  Transferred =>
    /\ Len(reads) = 35
    /\ \A k \in 1..34 : pushed[k][2] = 4 /\ reads[k][2] = 3840
    /\ pushed[35][2] = 3
    /\ reads[35][2] = 2880
    /\ consumed = 64800
    /\ sent[1].body = "OK"

\* C10: with 240 x 135 and 4 rows per chunk, a successful transfer is 33
\* chunks of 4 rows reading 1920 bytes each, then one chunk of 3 rows reading
\* 1440 bytes; 64800 bytes in all, answered 200 OK.
C10_Chunks33Of1920 ==
  Transferred =>
    /\ WIDTH = 240 /\ HEIGHT = 135 /\ CHUNK_ROWS = 4
    /\ Len(reads) = 34
    /\ Len(pushed) = 34
    /\ \A k \in 1..33 :
         /\ pushed[k] = <<4 * (k - 1), 4>>
         /\ reads[k] = <<4 * (k - 1), 1920, 1920>>
    /\ pushed[34] = <<132, 3>>
    /\ reads[34] = <<132, 1440, 1440>>
    /\ consumed = 64800
    /\ sent[1].body = "OK"

C10_Witness == Transferred /\ Len(reads) = 34 /\ consumed = 64800

\* ------------------------------------------------------------------- C11
\* the upload of this cycle is the upload the cycle before displayed
SameUploadAgain == prevUpload = <<body, unread>>

\* C11: when the upload a cycle has just displayed (answered 200) is
\* processed again by the next cycle, every rectangle the second cycle pushes
\* shows what the display showed there already: all through the second
\* cycle, and after it is answered 200, the display is the display the first
\* cycle left.
C11_SameUploadTwiceSameDisplay == SameUploadAgain => display = before

C11_Witness ==
  /\ Transferred
  /\ SameUploadAgain
  /\ conns = 2
  /\ Len(pushed) = 34
  /\ display = before
  /\ display[0][2] # TFT_BLACK

\* ------------------------------------------------------------------- C12
\* bytes of the heap held by the two chunk buffers; a pixel of the native
\* buffer is a uint16_t of two bytes
AllocatedBytes ==
  (IF heap.byteBuf = "live" THEN Len(byteBuf) ELSE 0)
  + (IF heap.wordBuf = "live" THEN 2 * Len(wordBuf) ELSE 0)

InChunkLoop == pc \in {"read", "convert", "push"}

\* C12: the body transfer never holds more than WIDTH * CHUNK_ROWS * 2 bytes
\* of wire buffer plus WIDTH * CHUNK_ROWS * 2 bytes of native buffer, that is
\* WIDTH * CHUNK_ROWS * 4 bytes, less than the image; each buffer is
\* allocated once per request, before the chunk loop, and all through the
\* loop the same two buffers of that size are live.
C12_ChunkBuffersBounded ==
  /\ AllocatedBytes <= WIDTH * CHUNK_ROWS * 4
  /\ AllocatedBytes < TOTAL_BYTES
  /\ heap.byteBuf = "live" => Len(byteBuf) = WIDTH * CHUNK_ROWS * 2
  /\ heap.wordBuf = "live" => 2 * Len(wordBuf) = WIDTH * CHUNK_ROWS * 2
  /\ mallocs <= 2
  /\ InChunkLoop =>
       /\ mallocs = 2
       /\ heap = [byteBuf |-> "live", wordBuf |-> "live"]
       /\ AllocatedBytes = WIDTH * CHUNK_ROWS * 4

C12_Witness ==
  /\ pc = "push"
  /\ y = 2 * CHUNK_ROWS
  /\ mallocs = 2
  /\ AllocatedBytes = WIDTH * CHUNK_ROWS * 4

\* ------------------------------------------------------------------- C13
\* C13: once the timeout of a call of readHeaderLine has elapsed without a
\* line feed read, the call consumes no further byte.
C13_NoReadAfterLineTimeout == rd.fn = "readHeaderLine" => ~rd.late

\* ------------------------------------------------------------------- C14
\* C14: the deadline of readFully runs from the beginning of each chunk's
\* read: a chunk whose bytes all arrived in less than timeoutMs from the
\* beginning of its read is never timed out, however long ago the first
\* chunk's read began, and a chunk is accepted only if all its bytes arrived
\* in less than timeoutMs from the beginning of its read.
C14_DeadlinePerChunk ==
  rd.fn = "readFully" =>
    /\ rd.at = "timedOut" => ~rd.inTime
    /\ rd.at = "accepted" => rd.inTime

C14_Witness ==
  /\ rd.fn = "readFully"
  /\ rd.at = "accepted"
  /\ rd.calls >= 2
  /\ rd.inTime
  /\ rd.began > 0
  /\ rd.now - rd.first > rd.timeoutMs

\* ------------------------------------------------------------------- C15
\* where a cycle stands, by what it has done so far
C15_Positions ==
  /\ headersRead => IsUploadRequest(requestLine)
  /\ reads # <<>> => headersRead /\ pc \notin {"request", "headers", "length"}
  /\ \A k \in 2..Len(reads) : reads[k][1] > reads[k - 1][1]
  /\ Len(pushed) <= Len(reads)
  /\ \A k \in 1..Len(pushed) : pushed[k][1] = reads[k][1]
  /\ pc = "read" => Len(reads) = Len(pushed)
  /\ pc \in {"convert", "push"} =>
       /\ Len(reads) = Len(pushed) + 1
       /\ reads[Len(reads)][1] = y
  /\ InChunkLoop => sent = <<>> /\ connOpen
  /\ ~connOpen => pc = "poll"

\* what a step can still do once a response is written
C15_AfterResponse ==
  sent # <<>> =>
    /\ display' = display
    /\ pc # "poll" => consumed' = consumed /\ reads' = reads /\ pushed' = pushed
    /\ pc' \in {"free", "finish", "poll", "request"}

\* C15: within one request the request line is read, then the header lines,
\* then the chunks in strictly increasing row order, each pushed to the
\* display before the cursor advances and before the next chunk is read,
\* then the response is written, then the connection is closed; after the
\* response is written nothing is drawn and no byte of the body is read.
C15_FixedOrder == []C15_Positions /\ [][C15_AfterResponse]_vars

C15_Witness ==
  /\ Returned
  /\ stalled = 64
  /\ Len(pushed) = 16
  /\ Len(reads) = 17
  /\ Len(sent) = 1
  /\ ~connOpen

\* ------------------------------------------------------------------- C16
\* the chunk loop was entered and no read timed out
EngineRunning == reads # <<>> /\ ~error
\* the chunk loop has ended without a timeout
Done == EngineRunning /\ ~InChunkLoop

\* what C16 says of the cursor while chunks are received and pushed
CursorInRange ==
  /\ InChunkLoop => 0 <= y /\ y < HEIGHT /\ y = CHUNK_ROWS * Len(pushed)
  /\ \A k \in 1..Len(pushed) :
       /\ pushed[k][1] = CHUNK_ROWS * (k - 1)
       /\ pushed[k][2] >= 1
       /\ pushed[k][1] + pushed[k][2] <= HEIGHT
  /\ error => y < HEIGHT

\* C16 as stated: the cursor is within 0 <= y < HEIGHT while a chunk is
\* received, advances by CHUNK_ROWS after each chunk, every pushed rectangle
\* ends within the display, and the loop is done exactly when the cursor
\* equals HEIGHT.
C16_DoneAtHeight ==
  /\ CursorInRange
  /\ EngineRunning => (Done <=> y = HEIGHT)

\* C16: the cursor is within 0 <= y < HEIGHT while a chunk is received,
\* advances by CHUNK_ROWS after each chunk, every pushed rectangle ends
\* within the display, and the loop is done exactly when the cursor is
\* HEIGHT or more: it is the first multiple of CHUNK_ROWS that is not below
\* HEIGHT, 136 for 135 rows.
C16_DoneAtOrPastHeight ==
  /\ CursorInRange
  /\ EngineRunning => (Done <=> y >= HEIGHT)
  /\ Done => y = CHUNK_ROWS * Len(pushed) /\ y - CHUNK_ROWS < HEIGHT

C16_Witness ==
  /\ Done
  /\ pc = "free"
  /\ y = 136
  /\ pushed[Len(pushed)] = <<132, 3>>

\* ------------------------------------------------------------------- C17
TimeoutBody == "Timeout receiving body"

\* the responses of the current connection
C17_Responses ==
  /\ Len(sent) <= 1
  /\ ~connOpen => pc = "poll"
  /\ error => Len(sent) = 1 /\ sent[1].body = TimeoutBody
  /\ stalled # NoStall => \A k \in 1..Len(sent) : sent[k].body = TimeoutBody

\* a step that writes a response writes the first one, to a connected
\* client; once the client is stopped nothing more is written to it or read
\* from it: the next step accepts another client
C17_Writes ==
  /\ (sent' # sent /\ sent' # <<>>) => connOpen /\ sent = <<>> /\ Len(sent') = 1
  /\ ~connOpen => (sent' = sent /\ consumed' = consumed) \/ conns' = conns + 1

\* C17: at most one response is written per accepted connection, it is
\* written while the client is connected, nothing is written to or read from
\* the connection after client.stop(), and a body timeout leaves the timeout
\* response as the only response, never followed by a 200.
C17_OneResponse == []C17_Responses /\ [][C17_Writes]_vars

C17_Witness ==
  /\ Returned
  /\ error
  /\ stalled = 64
  /\ Len(sent) = 1
  /\ sent[1].body = TimeoutBody
  /\ ~connOpen
  /\ Len(pushed) > 0

\* ------------------------------------------------------------------- C18
\* C18: a cycle that ends before the chunk loop (empty request line, 404,
\* 400, allocation failure) leaves the display as it was when the client was
\* accepted; so does every cycle as long as it has pushed no rectangle.
C18_RejectedLeavesDisplay == pushed = <<>> => display = before

C18_Witness ==
  /\ Returned
  /\ conns = 2
  /\ Answered(400)
  /\ reads = <<>>
  /\ display = before
  /\ display[0][2] # TFT_BLACK

\* ------------------------------------------------------------------- C19
\* the header loop ended on a call of readHeaderLine that timed out with
\* nothing accumulated: no blank line was read
HeadersTimedOut == unread # <<>>

\* C19: a header line read that times out with nothing accumulated ends the
\* header loop as a blank line does.  After it, a request that declared
\* Content-Length 64800 goes on to the allocations and, when the heap grants
\* them, to the read of the first chunk, and when the client stays silent
\* that read times out: the timeout response is written and nothing is
\* pushed; a request without that length is answered 400 before any
\* allocation.
C19_HeaderTimeoutEndsHeaders ==
  HeadersTimedOut =>
    /\ pc \notin {"request", "headers"}
    /\ headersRead
    /\ pc # "length" =>
         IF contentLength = TOTAL_BYTES
         THEN /\ (oom = "none" /\ pc \notin {"allocByte", "allocWord"}) =>
                   /\ mallocs = 2
                   /\ IF reads = <<>> THEN pc = "read" /\ y = 0
                                       ELSE reads[1][1] = 0
              /\ oom # "none" => Returned /\ Answered(500) /\ reads = <<>>
              /\ (reads # <<>> /\ reads[1][3] = 0) =>
                   /\ error
                   /\ stalled = 0
                   /\ pushed = <<>>
                   /\ Len(sent) = 1
                   /\ sent[1].body = TimeoutBody
         ELSE /\ Returned
              /\ Answered(400)
              /\ mallocs = 0
              /\ reads = <<>>

C19_Witness ==
  /\ Returned
  /\ HeadersTimedOut
  /\ contentLength = TOTAL_BYTES
  /\ mallocs = 2
  /\ reads = <<<<0, bytesPerChunk, 0>>>>
  /\ error
  /\ sent[1].body = TimeoutBody

\* ------------------------------------------------------------------- C20
\* the integer a Content-Length line declares: what follows the name, without
\* the blanks around it, read as a decimal number (0 when it is none)
DeclaredBy(line) == toInt(trim(substring(line, Len(CONTENT_LENGTH_))))

\* C20: while the header lines are read and when the length is compared, the
\* declared length is the value of the last header line read so far whose
\* name is content-length in any case of its letters, 0 when that value is
\* not a number and 0 when there was no such line; lines of other names do
\* not change it.
C20_LastContentLengthWins ==
  pc \in {"headers", "length"} =>
    contentLength = IF lastCL = <<>> THEN 0 ELSE DeclaredBy(lastCL)

C20_Witness ==
  /\ pc = "length"
  /\ lastCL # <<>>
  /\ DeclaredBy(lastCL) = 0
  /\ contentLength = 0

====
